---- MODULE Spec2Model ----
(***************************************************************************)
(* Git-Account-Manager: the account store (utils/config), the migrate      *)
(* command (commands/initRepo.ts, migrateRepo), the account command        *)
(* (commands/accountManager.ts) and the helpers they call (utils/git,      *)
(* utils/ssh, utils/interactive).                                          *)
(*                                                                         *)
(* The store is the JSON file ~/.github_account_manager_ts.json.  Every    *)
(* store operation reads the whole file, changes the parsed object and     *)
(* writes the whole file back; the variable `file` is the parsed content   *)
(* of that file.                                                           *)
(***************************************************************************)
EXTENDS Integers, Sequences, FiniteSets, TLC

VARIABLES
    file,       \* content of the config file: [accounts, defaultAccount]
    pre,        \* content of the config file before the last store call
    call,       \* the last store call and what it returned
    args,       \* migrate: the command line [source, target, deleteSource]
    repo,       \* the working directory: [isRepo, origin, userName, userEmail, dir]
    github,     \* full names (owner/name) of the repositories on GitHub
    m,          \* migrate: program position, locals and what the run has done
    ssh,        \* ~/.ssh: the config file, its backups and the key files
    cmd,        \* the last run of the account command and what it reported
    procs       \* two invocations at work on the config file at the same time

storeVars == <<file, pre, call>>

migrateVars == <<args, repo, github, m>>

accountVars == <<ssh, cmd>>

procVars == <<procs>>

vars == <<file, pre, call, args, repo, github, m, ssh, cmd, procs>>

----------------------------------------------------------------------------
(* Bounds *)

\* how many ordinary account names the operations draw their argument from
NumNames == 2

----------------------------------------------------------------------------
(* JavaScript objects.  An object is a function from its own enumerable    *)
(* property names to values; an account is an object whose values are      *)
(* strings.                                                                *)

EmptyObj == [f \in {} |-> ""]

\* a merge that keeps nothing of a
Spread_Replace(a, b) == b

\* { ...a, ...b }
Spread(a, b) ==
    [f \in (DOMAIN a) \cup (DOMAIN b) |-> IF f \in DOMAIN b THEN b[f] ELSE a[f]]

\* a delete that removes every property
DeleteKey_All(obj, key) == [k \in {} |-> obj[k]]

\* delete obj[key]
DeleteKey(obj, key) == [k \in (DOMAIN obj) \ {key} |-> obj[k]]

\* obj[key] = value
SetKey(obj, key, value) ==
    [k \in (DOMAIN obj) \cup {key} |-> IF k = key THEN value ELSE obj[k]]

\* Names every object parsed from JSON inherits from Object.prototype; the
\* value found under such a name is a function object (truthy, no own
\* enumerable properties).
ProtoNames == {"toString"}

\* config.accounts[name]: the own property, else the inherited one, else
\* undefined
Lookup(accounts, name) ==
    IF name \in DOMAIN accounts
        THEN [kind |-> "own", value |-> accounts[name]]
    ELSE IF name \in ProtoNames
        THEN [kind |-> "inherited", value |-> EmptyObj]
    ELSE [kind |-> "undefined", value |-> EmptyObj]

\* the truthiness test  if (config.accounts[name])
Truthy(v) == v.kind # "undefined"

\* Object.keys(config.accounts)
Keys(accounts) == DOMAIN accounts

----------------------------------------------------------------------------
(* The store's data *)

NameSeq == <<"example", "work", "personal", "client">>

OrdinaryNames == {NameSeq[i] : i \in 1..NumNames}

\* account names an operation can be called with
Names == OrdinaryNames \cup ProtoNames

\* getAccount() called without a name (undefined or the empty string)
NoName == ""

ExampleAccount ==
    [githubUsername |-> "YourGitHubUsername", gitUsername |-> "Your Name",
     gitEmail |-> "your.email@example.com", sshHostAlias |-> "github.com-example",
     githubToken |-> ""]

DEFAULT_CONFIG ==
    [accounts |-> [n \in {"example"} |-> ExampleAccount],
     defaultAccount |-> "example"]

\* account data createAccount is called with: with and without a token field
WorkAccount ==
    [githubUsername |-> "alice-work", gitUsername |-> "Alice",
     gitEmail |-> "alice@work.example", sshHostAlias |-> "github.com-work",
     githubToken |-> "tok-work"]

PersonalAccount ==
    [githubUsername |-> "alice", gitUsername |-> "Alice",
     gitEmail |-> "alice@home.example", sshHostAlias |-> "github.com-personal"]

AccountData == {WorkAccount, PersonalAccount}

\* partial data updateAccount is called with
PartialData ==
    { [githubToken |-> "tok-new"],
      [gitEmail |-> "alice@new.example", githubToken |-> "tok-new"] }

NoCall ==
    [op |-> "none", name |-> NoName, data |-> EmptyObj, outcome |-> "none",
     exit |-> -1, resName |-> NoName, result |-> EmptyObj]

Call(op, name, data, outcome, exit) ==
    [op |-> op, name |-> name, data |-> data, outcome |-> outcome,
     exit |-> exit, resName |-> NoName, result |-> EmptyObj]

----------------------------------------------------------------------------
(* utils/config: each operation as a function from the file content read   *)
(* to the result [config written (or the one read when nothing is written),*)
(* outcome, exit status (-1: the process goes on)].                        *)

readConfig == file

\* JSON.stringify leaves out the properties whose value is undefined
Undefined == "<undefined>"

JsonObject(obj) == [f \in {g \in DOMAIN obj : obj[g] # Undefined} |-> obj[f]]

\* fs.writeJsonSync(CONFIG_FILE_PATH, config): the content a later
\* readJsonSync parses back
writeJsonSync(config) ==
    [accounts |-> [n \in DOMAIN config.accounts |-> JsonObject(config.accounts[n])],
     defaultAccount |-> config.defaultAccount]

\* createAccount without its existence check
createAccountResult_Overwrite(config, accountName, accountData) ==
    LET added == SetKey(config.accounts, accountName, accountData)
        def == IF Cardinality(Keys(added)) = 1
                   THEN accountName ELSE config.defaultAccount
    IN [config |-> [accounts |-> added, defaultAccount |-> def],
        outcome |-> "ok", written |-> TRUE]

\* createAccount filling the fields not given from the template account
createAccountResult_Defaults(config, accountName, accountData) ==
    IF Truthy(Lookup(config.accounts, accountName))
        THEN [config |-> config, outcome |-> "AlreadyExists", written |-> FALSE]
    ELSE LET added == SetKey(config.accounts, accountName,
                             Spread(ExampleAccount, accountData))
             def == IF Cardinality(Keys(added)) = 1
                        THEN accountName ELSE config.defaultAccount
         IN [config |-> [accounts |-> added, defaultAccount |-> def],
             outcome |-> "ok", written |-> TRUE]

createAccountResult(config, accountName, accountData) ==
    IF Truthy(Lookup(config.accounts, accountName))
        THEN [config |-> config, outcome |-> "AlreadyExists", written |-> FALSE]
    ELSE LET added == SetKey(config.accounts, accountName, accountData)
             def == IF Cardinality(Keys(added)) = 1
                        THEN accountName ELSE config.defaultAccount
         IN [config |-> [accounts |-> added, defaultAccount |-> def],
             outcome |-> "ok", written |-> TRUE]

\* deleteAccount without its default-account check
deleteAccountResult_NoDefaultCheck(config, accountName) ==
    IF ~Truthy(Lookup(config.accounts, accountName))
        THEN [config |-> config, outcome |-> "AccountNotFound", written |-> FALSE]
    ELSE IF Cardinality(Keys(config.accounts)) = 1
        THEN [config |-> config, outcome |-> "SoleAccount", written |-> FALSE]
    ELSE [config |-> [accounts |-> DeleteKey(config.accounts, accountName),
                      defaultAccount |-> config.defaultAccount],
          outcome |-> "ok", written |-> TRUE]

\* deleteAccount making its sole-account check before its default-account
\* check
deleteAccountResult_SoleFirst(config, accountName) ==
    IF ~Truthy(Lookup(config.accounts, accountName))
        THEN [config |-> config, outcome |-> "AccountNotFound", written |-> FALSE]
    ELSE IF Cardinality(Keys(config.accounts)) = 1
        THEN [config |-> config, outcome |-> "SoleAccount", written |-> FALSE]
    ELSE IF config.defaultAccount = accountName
        THEN [config |-> config, outcome |-> "IsDefaultAccount", written |-> FALSE]
    ELSE [config |-> [accounts |-> DeleteKey(config.accounts, accountName),
                      defaultAccount |-> config.defaultAccount],
          outcome |-> "ok", written |-> TRUE]

deleteAccountResult(config, accountName) ==
    IF ~Truthy(Lookup(config.accounts, accountName))
        THEN [config |-> config, outcome |-> "AccountNotFound", written |-> FALSE]
    ELSE IF config.defaultAccount = accountName
        THEN [config |-> config, outcome |-> "IsDefaultAccount", written |-> FALSE]
    ELSE IF Cardinality(Keys(config.accounts)) = 1
        THEN [config |-> config, outcome |-> "SoleAccount", written |-> FALSE]
    ELSE [config |-> [accounts |-> DeleteKey(config.accounts, accountName),
                      defaultAccount |-> config.defaultAccount],
          outcome |-> "ok", written |-> TRUE]

setDefaultAccountResult(config, accountName) ==
    IF ~Truthy(Lookup(config.accounts, accountName))
        THEN [config |-> config, outcome |-> "AccountNotFound", written |-> FALSE]
    ELSE [config |-> [accounts |-> config.accounts, defaultAccount |-> accountName],
          outcome |-> "ok", written |-> TRUE]

updateAccountResult(config, accountName, accountData) ==
    IF ~Truthy(Lookup(config.accounts, accountName))
        THEN [config |-> config, outcome |-> "AccountNotFound", written |-> FALSE]
    ELSE LET merged == Spread(Lookup(config.accounts, accountName).value, accountData)
         IN [config |-> [accounts |-> SetKey(config.accounts, accountName, merged),
                         defaultAccount |-> config.defaultAccount],
             outcome |-> "ok", written |-> TRUE]

\* getAccount(accountName?): name = accountName || config.defaultAccount
getAccountResult(config, accountName) ==
    LET name == IF accountName = NoName THEN config.defaultAccount ELSE accountName
        found == Lookup(config.accounts, name)
    IN IF ~Truthy(found)
           THEN [outcome |-> "AccountNotFound", name |-> name, account |-> EmptyObj]
       ELSE [outcome |-> "ok", name |-> name, account |-> found.value]

----------------------------------------------------------------------------
(* Store operations as steps of the program *)

StoreStep(res, c) ==
    /\ pre' = file
    /\ file' = IF res.written THEN writeJsonSync(res.config) ELSE file
    /\ call' = c

createAccount(accountName, accountData) ==
    LET res == createAccountResult(readConfig, accountName, accountData)
    IN StoreStep(res, Call("create", accountName, accountData, res.outcome, -1))

deleteAccount(accountName) ==
    LET res == deleteAccountResult(readConfig, accountName)
    IN StoreStep(res, Call("delete", accountName, EmptyObj, res.outcome, -1))

setDefaultAccount(accountName) ==
    LET res == setDefaultAccountResult(readConfig, accountName)
    IN StoreStep(res, Call("setDefault", accountName, EmptyObj, res.outcome, -1))

\* an unknown account ends the process: process.exit(1)
updateAccount(accountName, accountData) ==
    LET res == updateAccountResult(readConfig, accountName, accountData)
    IN StoreStep(res, Call("update", accountName, accountData, res.outcome,
                           IF res.outcome = "ok" THEN -1 ELSE 1))

getAccount(accountName) ==
    LET res == getAccountResult(readConfig, accountName)
    IN /\ pre' = file
       /\ file' = file
       /\ call' = [op |-> "get", name |-> accountName, data |-> EmptyObj,
                   outcome |-> res.outcome,
                   exit |-> IF res.outcome = "ok" THEN -1 ELSE 1,
                   resName |-> res.name, result |-> res.account]

----------------------------------------------------------------------------
(* Two invocations of the program at the same time.  Each store operation  *)
(* reads the whole file (readConfig), changes the parsed object and writes *)
(* the whole file (fs.writeJsonSync); nothing locks the file, so between   *)
(* the read and the write of one process the other process can run.        *)

Procs == {1, 2}

Other(p) == 3 - p

\* names the two invocations are called with
ProcNames == {"example", "work", "personal"} \cup ProtoNames

NoProc ==
    [pc |-> "idle", op |-> "none", name |-> NoName, data |-> EmptyObj,
     config |-> DEFAULT_CONFIG, outcome |-> "none", sawOther |-> FALSE,
     seq |-> 0]

NoProcs == [p \in Procs |-> NoProc]

\* the operations an invocation can run, with their arguments
ProcOps ==
    [op : {"create"}, name : ProcNames, data : AccountData]
    \cup [op : {"update"}, name : ProcNames, data : PartialData]
    \cup [op : {"delete", "setDefault"}, name : ProcNames, data : {EmptyObj}]

\* what the operation makes of the config it has read
ApplyOp(config, o) ==
    CASE o.op = "create" -> createAccountResult(config, o.name, o.data)
      [] o.op = "update" -> updateAccountResult(config, o.name, o.data)
      [] o.op = "delete" -> deleteAccountResult(config, o.name)
      [] o.op = "setDefault" -> setDefaultAccountResult(config, o.name)

\* readConfig() and the checks and changes up to the write; an operation
\* that rejects its arguments writes nothing
ProcRead(p) ==
    /\ procs[p].pc = "idle"
    /\ \E o \in ProcOps :
        LET res == ApplyOp(readConfig, o)
        IN procs' = [procs EXCEPT ![p] =
                [pc |-> IF res.written THEN "write" ELSE "done",
                 op |-> o.op, name |-> o.name, data |-> o.data,
                 config |-> res.config, outcome |-> res.outcome,
                 sawOther |-> procs[Other(p)].seq > 0,
                 seq |-> 0]]
    /\ UNCHANGED storeVars
    /\ UNCHANGED migrateVars
    /\ UNCHANGED accountVars

\* a write that reads the file again and applies the operation to it
ProcWrite_ReadsAgain(p) ==
    /\ procs[p].pc = "write"
    /\ pre' = file
    /\ file' = writeJsonSync(ApplyOp(file, procs[p]).config)
    /\ call' = Call(procs[p].op, procs[p].name, procs[p].data, procs[p].outcome, -1)
    /\ procs' = [procs EXCEPT ![p].pc = "done",
                              ![p].seq = procs[Other(p)].seq + 1]
    /\ UNCHANGED migrateVars
    /\ UNCHANGED accountVars

\* fs.writeJsonSync(CONFIG_FILE_PATH, config) with the object made from the
\* earlier read
ProcWrite(p) ==
    /\ procs[p].pc = "write"
    /\ pre' = file
    /\ file' = writeJsonSync(procs[p].config)
    /\ call' = Call(procs[p].op, procs[p].name, procs[p].data, procs[p].outcome, -1)
    /\ procs' = [procs EXCEPT ![p].pc = "done",
                              ![p].seq = procs[Other(p)].seq + 1]
    /\ UNCHANGED migrateVars
    /\ UNCHANGED accountVars

----------------------------------------------------------------------------

(* utils/ssh.  A text is the sequence of its lines: the text is the lines  *)
(* joined with "\n", so the empty text is one empty line and a text that   *)
(* ends with a newline has an empty last line.  A line is either a Host    *)
(* line, [kind |-> "host", text |-> <alias>] for  Host <alias> , a comment *)
(* line (# ...) or any other line, with its text.                          *)

HostLine(alias) == [kind |-> "host", text |-> alias]

Line(text) == [kind |-> "other", text |-> text]

Comment(text) == [kind |-> "comment", text |-> text]

EmptyLine == Line("")

\* the empty string
EmptyText == <<EmptyLine>>

\* `${a}\n${b}`
JoinLines(a, b) == a \o b

\* a + '\n\n' + b
JoinBlocks(a, b) == a \o <<EmptyLine>> \o b

\* ~/.ssh with no config file, no backup and no key file
NoSshDir == [exists |-> FALSE, text |-> EmptyText, backups |-> <<>>, keys |-> {}]

\* readSshConfig: the content of the file, '' when there is none
readSshConfig == IF ssh.exists THEN ssh.text ELSE EmptyText

\* config.split(/\n(?=Host\s+)/): the text is cut before every Host line
\* but the first line
RECURSIVE SplitBeforeHost(_)
SplitBeforeHost(text) ==
    IF \E i \in 2..Len(text) : text[i].kind = "host"
        THEN LET i == CHOOSE j \in 2..Len(text) :
                        /\ text[j].kind = "host"
                        /\ \A k \in 2..(j - 1) : text[k].kind # "host"
             IN <<SubSeq(text, 1, i - 1)>>
                    \o SplitBeforeHost(SubSeq(text, i, Len(text)))
    ELSE <<text>>

\* parseSshConfig: an object from Host names to their blocks, as the
\* sequence of its entries in insertion order; a name met again replaces
\* the block and keeps its place
RECURSIVE ParseBlocks(_, _)
ParseBlocks(blocks, hosts) ==
    IF blocks = <<>> THEN hosts
    ELSE LET block == Head(blocks)
             hostName == block[1].text
             entry == [name |-> hostName, block |-> block]
             put == IF \E i \in 1..Len(hosts) : hosts[i].name = hostName
                        THEN [i \in 1..Len(hosts) |->
                                 IF hosts[i].name = hostName THEN entry ELSE hosts[i]]
                    ELSE Append(hosts, entry)
         IN ParseBlocks(Tail(blocks),
                        IF block[1].kind = "host" THEN put ELSE hosts)

parseSshConfig(config) ==
    IF config = EmptyText THEN <<>>
    ELSE ParseBlocks(SplitBeforeHost(config), <<>>)

HostNames(hosts) == {hosts[i].name : i \in 1..Len(hosts)}

\* checkSshHostExists(hostAlias)
checkSshHostExists(hostAlias) ==
    hostAlias \in HostNames(parseSshConfig(readSshConfig))

\* delete hosts[alias]
RECURSIVE DeleteHost(_, _)
DeleteHost(hosts, alias) ==
    IF hosts = <<>> THEN <<>>
    ELSE IF Head(hosts).name = alias THEN DeleteHost(Tail(hosts), alias)
    ELSE <<Head(hosts)>> \o DeleteHost(Tail(hosts), alias)

\* Object.values(hosts).join('\n\n')
RECURSIVE JoinHosts(_)
JoinHosts(hosts) ==
    IF hosts = <<>> THEN EmptyText
    ELSE IF Len(hosts) = 1 THEN hosts[1].block
    ELSE JoinBlocks(hosts[1].block, JoinHosts(Tail(hosts)))

\* hostAlias.replace('github.com-', ''), the name of the key file after
\* id_rsa_ (getSshKeyPath)
KeyName(hostAlias) ==
    CASE hostAlias = "github.com-example" -> "example"
      [] hostAlias = "github.com-work" -> "work"
      [] hostAlias = "github.com-personal" -> "personal"
      [] OTHER -> hostAlias

\* generateSshConfigBlock(account)
generateSshConfigBlock(account) ==
    << EmptyLine,
       Comment("# " \o account["gitUsername"] \o " (" \o account["githubUsername"]
                    \o ")"),
       HostLine(account["sshHostAlias"]),
       Line("  HostName github.com"),
       Line("  User git"),
       Line("  IdentityFile ~/.ssh/id_rsa_" \o KeyName(account["sshHostAlias"])),
       Line("  IdentitiesOnly yes"),
       EmptyLine >>

\* updateSshConfig writing the file whether or not there is one to back up
updateSshConfigResult_Create(dir, newConfig, copyOk, writeOk) ==
    [dir |-> [dir EXCEPT !.exists = TRUE, !.text = newConfig], ok |-> TRUE,
     backedUp |-> FALSE, wrote |-> TRUE]

\* updateSshConfig writing the file without a backup
updateSshConfigResult_NoBackup(dir, newConfig, copyOk, writeOk) ==
    IF ~dir.exists
        THEN [dir |-> dir, ok |-> FALSE, backedUp |-> FALSE, wrote |-> FALSE]
    ELSE [dir |-> [dir EXCEPT !.text = newConfig], ok |-> TRUE,
          backedUp |-> FALSE, wrote |-> TRUE]

\* backupSshConfig and updateSshConfig: the directory after the call and
\* whether the call returned true.  Without a file there is no backup and
\* without a backup no write; copyOk and writeOk are the file system's
\* answers to the copy and to the write.
updateSshConfigResult(dir, newConfig, copyOk, writeOk) ==
    IF ~dir.exists \/ ~copyOk
        THEN [dir |-> dir, ok |-> FALSE, backedUp |-> FALSE, wrote |-> FALSE]
    ELSE LET saved == [dir EXCEPT !.backups = Append(@, dir.text)]
         IN IF writeOk
                THEN [dir |-> [saved EXCEPT !.text = newConfig], ok |-> TRUE,
                      backedUp |-> TRUE, wrote |-> TRUE]
            ELSE [dir |-> saved, ok |-> FALSE, backedUp |-> TRUE, wrote |-> FALSE]

\* addHostToSshConfig(hostBlock)
addHostToSshConfigResult(dir, hostBlock, copyOk, writeOk) ==
    LET config == IF dir.exists THEN dir.text ELSE EmptyText
        newConfig == IF config # EmptyText THEN JoinLines(config, hostBlock)
                     ELSE hostBlock
    IN updateSshConfigResult(dir, newConfig, copyOk, writeOk)

----------------------------------------------------------------------------
(* commands/accountManager.ts: one run of  gh-manager account <name>      *)
(* with --create, --delete or --set-default.  A run that returns from its  *)
(* handler ends with exit status 0, process.exit(1) with 1.                *)

\* the model runs no further account command that touches ~/.ssh once
\* there are more backups of the SSH config than this
MaxBackups == 1

\* autoUpdateSshConfig adding the block without looking for the alias
autoUpdateSshConfigResult_AlwaysAdds(dir, account, copyOk, writeOk) ==
    addHostToSshConfigResult(dir, generateSshConfigBlock(account), copyOk, writeOk)

\* autoUpdateSshConfig(account)
autoUpdateSshConfigResult(dir, account, copyOk, writeOk) ==
    IF account["sshHostAlias"]
            \in HostNames(parseSshConfig(IF dir.exists THEN dir.text ELSE EmptyText))
        THEN [dir |-> dir, ok |-> TRUE, backedUp |-> FALSE, wrote |-> FALSE]
    ELSE addHostToSshConfigResult(dir, generateSshConfigBlock(account),
                                  copyOk, writeOk)

NoCmd ==
    [op |-> "none", name |-> NoName, exit |-> -1, success |-> FALSE,
     outcome |-> "none", ssh0 |-> NoSshDir,
     sshCalled |-> FALSE, sshOk |-> FALSE, sshWrote |-> FALSE, alias |-> ""]

Cmd(op, name, exit, success, outcome) ==
    [NoCmd EXCEPT !.op = op, !.name = name, !.exit = exit, !.success = success,
                  !.outcome = outcome, !.ssh0 = ssh]

\* the file system's answers to the copy and to the write of
\* updateSshConfig
FsAnswers ==
    { [copyOk |-> TRUE, writeOk |-> TRUE], [copyOk |-> FALSE, writeOk |-> TRUE],
      [copyOk |-> TRUE, writeOk |-> FALSE] }

\* the account data typed in for a new account of that name
NewAccountData(accountName) ==
    IF accountName = "work" THEN WorkAccount ELSE PersonalAccount

\* createNewAccount(suggestedName) with the name given on the command line
\* (a name typed at the prompt instead is refused until it is not the name
\* of an account, and then the run is the same).  Questions that are not
\* asked have no answer to choose.
AccountCreate ==
    /\ Len(ssh.backups) <= MaxBackups
    /\ \E accountName \in {"work", "personal"} :
        LET accountData == NewAccountData(accountName)
            res == createAccountResult(readConfig, accountName, accountData)
            created == res.outcome = "ok"
            keyName == KeyName(accountData["sshHostAlias"])
            hostExists == checkSshHostExists(accountData["sshHostAlias"])
        IN \E createKey \in IF created /\ keyName \notin ssh.keys
                               THEN BOOLEAN ELSE {FALSE},
              updateSsh \in IF created THEN BOOLEAN ELSE {FALSE},
              setAsDefault \in IF created /\ Cardinality(Keys(res.config.accounts)) > 1
                                  THEN BOOLEAN ELSE {FALSE} :
            \E fs \in IF updateSsh /\ ~hostExists /\ ssh.exists
                          THEN FsAnswers ELSE {[copyOk |-> TRUE, writeOk |-> TRUE]} :
                LET keyed == IF createKey
                                 THEN [ssh EXCEPT !.keys = @ \cup {keyName}] ELSE ssh
                    auto == autoUpdateSshConfigResult(keyed, accountData,
                                                      fs.copyOk, fs.writeOk)
                    def == setDefaultAccountResult(writeJsonSync(res.config),
                                                   accountName)
                IN /\ file' = IF setAsDefault THEN writeJsonSync(def.config)
                              ELSE IF created THEN writeJsonSync(res.config)
                              ELSE file
                   /\ pre' = IF setAsDefault THEN writeJsonSync(res.config) ELSE file
                   /\ call' = IF setAsDefault
                                  THEN Call("setDefault", accountName, EmptyObj,
                                            def.outcome, -1)
                              ELSE Call("create", accountName, accountData,
                                        res.outcome, -1)
                   /\ ssh' = IF updateSsh THEN auto.dir ELSE keyed
                   /\ cmd' = [Cmd("create", accountName, 0, created, res.outcome)
                                EXCEPT !.alias = accountData["sshHostAlias"],
                                       !.sshCalled = updateSsh /\ ~hostExists,
                                       !.sshOk = updateSsh /\ auto.ok,
                                       !.sshWrote = updateSsh /\ auto.wrote]
    /\ UNCHANGED migrateVars
    /\ UNCHANGED procVars

\* deleteExistingAccount(accountName)
AccountDelete ==
    /\ Len(ssh.backups) <= MaxBackups
    /\ \E accountName \in {"example", "work", "personal", "nobody"} :
        LET got == getAccountResult(readConfig, accountName)
        IN IF got.outcome # "ok"
               THEN /\ cmd' = Cmd("delete", accountName, 1, FALSE, got.outcome)
                    /\ getAccount(accountName)
                    /\ ssh' = ssh
           ELSE \E confirmDelete \in BOOLEAN :
               IF ~confirmDelete
                   THEN /\ cmd' = Cmd("delete", accountName, 0, FALSE, "cancelled")
                        /\ getAccount(accountName)
                        /\ ssh' = ssh
               ELSE LET sshHostAlias == got.account["sshHostAlias"]
                        hosts == parseSshConfig(readSshConfig)
                        hostExists == checkSshHostExists(sshHostAlias)
                        keyName == KeyName(sshHostAlias)
                        newConfig == JoinHosts(DeleteHost(hosts, sshHostAlias))
                        res == deleteAccountResult(readConfig, accountName)
                    IN \E deleteSshConfig \in IF hostExists THEN BOOLEAN ELSE {FALSE},
                          deleteSshKey \in IF keyName \in ssh.keys
                                              THEN BOOLEAN ELSE {FALSE} :
                        \E fs \in IF deleteSshConfig THEN FsAnswers
                                  ELSE {[copyOk |-> TRUE, writeOk |-> TRUE]} :
                            LET upd == updateSshConfigResult(ssh, newConfig,
                                                             fs.copyOk, fs.writeOk)
                                cleaned == IF deleteSshConfig THEN upd.dir ELSE ssh
                            IN /\ ssh' = IF deleteSshKey
                                             THEN [cleaned EXCEPT !.keys = @ \ {keyName}]
                                         ELSE cleaned
                               /\ deleteAccount(accountName)
                               /\ cmd' = [Cmd("delete", accountName, 0, TRUE, res.outcome)
                                            EXCEPT !.alias = sshHostAlias,
                                                   !.sshCalled = deleteSshConfig,
                                                   !.sshOk = deleteSshConfig /\ upd.ok,
                                                   !.sshWrote = deleteSshConfig /\ upd.wrote]
    /\ UNCHANGED migrateVars
    /\ UNCHANGED procVars

\* setDefaultExistingAccount(accountName)
AccountSetDefault ==
    /\ \E accountName \in {"example", "work", "personal", "nobody"} :
        LET res == setDefaultAccountResult(readConfig, accountName)
        IN /\ setDefaultAccount(accountName)
           /\ cmd' = Cmd("setDefault", accountName, 0, res.outcome = "ok",
                         res.outcome)
    /\ ssh' = ssh
    /\ UNCHANGED migrateVars
    /\ UNCHANGED procVars

NextAccount ==
    \/ AccountCreate
    \/ AccountDelete
    \/ AccountSetDefault

\* an SSH config written by hand: text before the first Host line, a block
\* of an account, a block that is not an account's, and a block of an
\* account with a comment line above its Host line
HandWrittenConfig ==
    << Comment("# my hosts"),
       Line("ServerAliveInterval 60"),
       EmptyLine,
       HostLine("github.com-work"),
       Line("  HostName github.com"),
       Line("  IdentityFile ~/.ssh/id_rsa_work"),
       EmptyLine,
       HostLine("myserver"),
       Line("  HostName server.example"),
       EmptyLine,
       Comment("# personal account"),
       HostLine("github.com-personal"),
       Line("  HostName github.com"),
       Line("  IdentityFile ~/.ssh/id_rsa_personal"),
       EmptyLine >>

SshDirs ==
    { NoSshDir,
      [NoSshDir EXCEPT !.exists = TRUE],
      [NoSshDir EXCEPT !.exists = TRUE, !.text = HandWrittenConfig,
                       !.keys = {"work", "personal"}] }

----------------------------------------------------------------------------
(* utils/git and utils/interactive, as the migrate command uses them *)

\* A remote URL, kept as its parts.  kind "none" is the empty string (no
\* origin), "ssh" is git@<host>:<owner>/<name>.git, "https" is
\* https://github.com/<owner>/<name>.git, "other" matches neither pattern.
NoUrl == [kind |-> "none", host |-> "", owner |-> "", name |-> ""]

SshUrl(host, owner, name) ==
    [kind |-> "ssh", host |-> host, owner |-> owner, name |-> name]

HttpsUrl(owner, name) ==
    [kind |-> "https", host |-> "github.com", owner |-> owner, name |-> name]

OtherUrl ==
    [kind |-> "other", host |-> "gitlab.example", owner |-> "alice", name |-> "demo"]

FullName(owner, name) == owner \o "/" \o name

NullInfo ==
    [isNull |-> TRUE, name |-> "", owner |-> "", fullName |-> "",
     sshUrl |-> NoUrl, httpsUrl |-> NoUrl, exists |-> FALSE]

\* the repository-name group of both patterns, ([^.]+): the characters after
\* <owner>/ up to the first dot, at most up to the end of the URL
NameGroup(name) ==
    CASE name = "alice.github.io" -> "alice"
      [] name = "demo.js" -> "demo"
      [] OTHER -> name

parseRepoUrl(url) ==
    IF url.kind \in {"ssh", "https"}
        THEN LET name == NameGroup(url.name)
             IN [isNull |-> FALSE, name |-> name, owner |-> url.owner,
                 fullName |-> FullName(url.owner, name),
                 sshUrl |-> SshUrl("github.com", url.owner, name),
                 httpsUrl |-> HttpsUrl(url.owner, name),
                 exists |-> TRUE]
    ELSE NullInfo

\* path.basename(process.cwd())
getCurrentDirName(r) == r.dir

\* getCurrentRepoInfo: "exit" when the directory is no repository and none
\* may be initialized, else the info parsed from origin (null when origin
\* matches no pattern) or made from the directory name.  `initialized` says
\* whether git init ran (it can fail: "exit").
getCurrentRepoInfo(r, shouldInitIfNeeded, initOk) ==
    IF ~r.isRepo /\ ~shouldInitIfNeeded
        THEN [exit |-> TRUE, initialized |-> FALSE, info |-> NullInfo]
    ELSE IF ~r.isRepo /\ ~initOk
        THEN [exit |-> TRUE, initialized |-> FALSE, info |-> NullInfo]
    ELSE [exit |-> FALSE, initialized |-> ~r.isRepo,
          info |-> IF r.origin.kind # "none"
                       THEN parseRepoUrl(r.origin)
                       ELSE [isNull |-> FALSE, name |-> getCurrentDirName(r),
                             owner |-> "", fullName |-> "", sshUrl |-> NoUrl,
                             httpsUrl |-> NoUrl, exists |-> FALSE]]

\* selectAccount(message, defaultAccount): the names it can return; none
\* when no account is configured (process.exit(1))
selectAccount(config, defaultAccount) ==
    IF Keys(config.accounts) = {} THEN {}
    ELSE IF defaultAccount # NoName /\ defaultAccount \in Keys(config.accounts)
        THEN {defaultAccount}
    ELSE Keys(config.accounts)

\* account.githubToken, undefined or empty when not configured
HasToken(account) == "githubToken" \in DOMAIN account /\ account["githubToken"] # ""

\* confirmDangerousAction's text prompt: validate accepts the input, and
\* the function returns text === confirmationText
DangerousTextValid(input, confirmationText) == input = confirmationText

DangerousTextConfirms(text, confirmationText) == text = confirmationText

\* `DELETE-${repoInfo.name}`
DeleteConfirmationText(repoName) == "DELETE-" \o repoName

\* a remote URL built without looking at the account's host alias
TargetSshUrl_Plain(account, repoName, sshConnected) ==
    SshUrl("github.com", account["githubUsername"], repoName)

\* the remote URL updateRemoteUrl builds
TargetSshUrl(account, repoName, sshConnected) ==
    SshUrl(IF sshConnected THEN account["sshHostAlias"] ELSE "github.com",
           account["githubUsername"], repoName)

\* What the probe of checkRepoExists (git ls-remote --exit-code <ssh url>
\* HEAD) can come to: "present" is exit code 0, "absent" a non-zero exit
\* code (no such repository, no HEAD), "failure" the probe not running or
\* not getting through (no network, no git: execa throws).
RepoProbes(account, repoName) ==
    IF FullName(account["githubUsername"], repoName) \in github
        THEN {"present", "failure"} ELSE {"absent", "failure"}

\* checkRepoExists without reject: false and without its catch
checkRepoExistsResult_Throws(probe) ==
    [raised |-> probe # "present", value |-> probe = "present"]

\* checkRepoExists on a probe outcome: exitCode === 0, and false from the
\* catch; nothing is thrown
checkRepoExistsResult(probe) ==
    [raised |-> FALSE, value |-> probe = "present"]

\* the values checkRepoExists can return
checkRepoExists(account, repoName) ==
    { checkRepoExistsResult(probe).value : probe \in RepoProbes(account, repoName) }

----------------------------------------------------------------------------
(* commands/initRepo.ts, migrateRepo: one run of  gh-manager migrate       *)

\* how often the text prompt of the dangerous confirmation is answered with
\* a text its validation refuses
MaxRetype == 1

Idle ==
    [pc |-> "idle", exit |-> -1, shouldInit |-> FALSE, repoInfo |-> NullInfo,
     sourceAccountName |-> NoName, targetAccountName |-> NoName,
     sourceAccount |-> EmptyObj, targetAccount |-> EmptyObj,
     targetRepoExists |-> FALSE, isPrivate |-> TRUE, sshConnected |-> FALSE,
     firstConfirm |-> "none", text |-> "", retypes |-> 0,
     pushed |-> FALSE, deleted |-> FALSE, deleteCalled |-> FALSE,
     shouldPush |-> FALSE, declined |-> "none",
     attached |-> FALSE, failed |-> "none",
     probe |-> "none", probed |-> [raised |-> FALSE, value |-> FALSE],
     created |-> "none",
     start |-> [isRepo |-> FALSE, origin |-> NoUrl, userName |-> "",
                userEmail |-> "", dir |-> "demo"]]

Exit(code) == [m EXCEPT !.pc = "exited", !.exit = code]

At(label) == m.pc = label

StoreUntouched == UNCHANGED storeVars

\* lines 112-122: not a repository ends the command inside
\* getCurrentRepoInfo(false); a null info (origin matches no pattern) is
\* taken for "not a repository" and the user is asked whether to initialize
MigrateDetectRepo ==
    /\ At("start")
    /\ LET r == getCurrentRepoInfo(repo, FALSE, TRUE)
       IN m' = IF r.exit THEN Exit(1)
               ELSE IF r.info.isNull THEN [m EXCEPT !.pc = "askInit"]
               ELSE [m EXCEPT !.pc = "repoInfo"]
    /\ UNCHANGED <<args, repo, github>>
    /\ UNCHANGED accountVars
    /\ UNCHANGED procVars
    /\ StoreUntouched

MigrateAskInit ==
    /\ At("askInit")
    /\ \E answer \in BOOLEAN :
        m' = IF answer THEN [m EXCEPT !.pc = "repoInfo", !.shouldInit = TRUE]
             ELSE [Exit(0) EXCEPT !.declined = "init"]
    /\ UNCHANGED <<args, repo, github>>
    /\ UNCHANGED accountVars
    /\ UNCHANGED procVars
    /\ StoreUntouched

\* lines 124-138
MigrateRepoInfo ==
    /\ At("repoInfo")
    /\ \E initOk \in BOOLEAN, customRepoName \in {"", "renamed"} :
        LET r == getCurrentRepoInfo(repo, m.shouldInit, initOk)
            named == IF m.shouldInit /\ customRepoName # ""
                        /\ customRepoName # r.info.name
                         THEN [r.info EXCEPT !.name = customRepoName]
                         ELSE r.info
        IN /\ m' = IF r.exit \/ r.info.isNull THEN Exit(1)
                   ELSE [m EXCEPT !.pc = "source", !.repoInfo = named]
           /\ repo' = IF r.initialized THEN [repo EXCEPT !.isRepo = TRUE] ELSE repo
    /\ UNCHANGED <<args, github>>
    /\ UNCHANGED accountVars
    /\ UNCHANGED procVars
    /\ StoreUntouched

\* lines 140-146
MigrateSource ==
    /\ At("source")
    /\ LET choices == IF args.source = NoName
                          THEN selectAccount(file, NoName) ELSE {args.source}
       IN IF choices = {}
              THEN m' = Exit(1)
          ELSE \E name \in choices :
                  LET got == getAccountResult(file, name)
                  IN m' = IF got.outcome # "ok" THEN Exit(1)
                          ELSE [m EXCEPT !.pc = "target",
                                         !.sourceAccountName = name,
                                         !.sourceAccount = got.account]
    /\ UNCHANGED <<args, repo, github>>
    /\ UNCHANGED accountVars
    /\ UNCHANGED procVars
    /\ StoreUntouched

\* lines 148-161
MigrateTarget ==
    /\ At("target")
    /\ IF args.target # NoName
           THEN LET got == getAccountResult(file, args.target)
                IN m' = IF got.outcome # "ok" THEN Exit(1)
                        ELSE [m EXCEPT !.pc = "targetToken",
                                       !.targetAccountName = args.target,
                                       !.targetAccount = got.account]
       ELSE LET def == getAccountResult(file, NoName)
            IN IF def.outcome # "ok"
                   THEN m' = Exit(1)
               ELSE LET choices ==
                            selectAccount(file,
                                IF m.sourceAccountName = def.name
                                    THEN NoName ELSE def.name)
                    IN IF choices = {}
                           THEN m' = Exit(1)
                       ELSE \E name \in choices :
                               LET got == getAccountResult(file, name)
                               IN m' = IF m.sourceAccountName = name
                                           THEN [Exit(1) EXCEPT
                                                   !.targetAccountName = name]
                                       ELSE IF got.outcome # "ok"
                                           THEN Exit(1)
                                       ELSE [m EXCEPT !.pc = "targetToken",
                                                      !.targetAccountName = name,
                                                      !.targetAccount = got.account]
    /\ UNCHANGED <<args, repo, github>>
    /\ UNCHANGED accountVars
    /\ UNCHANGED procVars
    /\ StoreUntouched

\* lines 163-186: a target account without a token is given one
MigrateTargetToken ==
    /\ At("targetToken")
    /\ IF HasToken(m.targetAccount)
           THEN /\ m' = [m EXCEPT !.pc = "sourceToken"]
                /\ StoreUntouched
       ELSE \E inputToken \in {"tok-new"} :
               /\ updateAccount(m.targetAccountName, [githubToken |-> inputToken])
               /\ m' = [m EXCEPT !.pc = "sourceToken",
                                 !.targetAccount =
                                     Spread(@, [githubToken |-> inputToken])]
    /\ UNCHANGED <<args, repo, github>>
    /\ UNCHANGED accountVars
    /\ UNCHANGED procVars

\* lines 188-211: so is the source account when its repository is to be
\* deleted
MigrateSourceToken ==
    /\ At("sourceToken")
    /\ IF ~args.deleteSource \/ HasToken(m.sourceAccount)
           THEN /\ m' = [m EXCEPT !.pc = "checkTarget"]
                /\ StoreUntouched
       ELSE \E inputToken \in {"tok-new"} :
               /\ updateAccount(m.sourceAccountName, [githubToken |-> inputToken])
               /\ m' = [m EXCEPT !.pc = "checkTarget",
                                 !.sourceAccount =
                                     Spread(@, [githubToken |-> inputToken])]
    /\ UNCHANGED <<args, repo, github>>
    /\ UNCHANGED accountVars
    /\ UNCHANGED procVars

\* lines 215-220
MigrateCheckTarget ==
    /\ At("checkTarget")
    /\ IF m.shouldInit
           THEN m' = [m EXCEPT !.pc = "setConfig"]
       ELSE \E probe \in RepoProbes(m.targetAccount, m.repoInfo.name) :
               LET r == checkRepoExistsResult(probe)
               IN m' = IF r.raised
                           THEN [Exit(1) EXCEPT !.failed = "checkRepoExists",
                                                !.probe = probe, !.probed = r]
                       ELSE [m EXCEPT !.pc = IF r.value THEN "confirmOverwrite"
                                             ELSE "setConfig",
                                      !.targetRepoExists = r.value,
                                      !.probe = probe, !.probed = r]
    /\ UNCHANGED <<args, repo, github>>
    /\ UNCHANGED accountVars
    /\ UNCHANGED procVars
    /\ StoreUntouched

\* the overwrite question with its answer ignored
MigrateConfirmOverwrite_Ignored ==
    /\ At("confirmOverwrite")
    /\ \E shouldContinue \in BOOLEAN :
        m' = [m EXCEPT !.pc = "setConfig",
                       !.declined = IF shouldContinue THEN @ ELSE "overwrite"]
    /\ UNCHANGED <<args, repo, github>>
    /\ UNCHANGED accountVars
    /\ UNCHANGED procVars
    /\ StoreUntouched

\* lines 221-228
MigrateConfirmOverwrite ==
    /\ At("confirmOverwrite")
    /\ \E shouldContinue \in BOOLEAN :
        m' = IF shouldContinue THEN [m EXCEPT !.pc = "setConfig"]
             ELSE [Exit(0) EXCEPT !.declined = "overwrite"]
    /\ UNCHANGED <<args, repo, github>>
    /\ UNCHANGED accountVars
    /\ UNCHANGED procVars
    /\ StoreUntouched

\* line 232, setGitConfig: two git config commands, either of which can fail
MigrateSetGitConfig ==
    /\ At("setConfig")
    /\ \E failAt \in {0, 1, 2} :
        /\ repo' = [repo EXCEPT
                      !.userName = IF failAt = 1 THEN @
                                   ELSE m.targetAccount["gitUsername"],
                      !.userEmail = IF failAt \in {1, 2} THEN @
                                    ELSE m.targetAccount["gitEmail"]]
        /\ m' = IF failAt = 0 THEN [m EXCEPT !.pc = "visibility"] ELSE Exit(1)
    /\ UNCHANGED <<args, github>>
    /\ UNCHANGED accountVars
    /\ UNCHANGED procVars
    /\ StoreUntouched

\* lines 234-241
MigrateAskVisibility ==
    /\ At("visibility")
    /\ IF m.shouldInit \/ ~m.targetRepoExists
           THEN \E public \in BOOLEAN :
                   m' = [m EXCEPT !.pc = "updateRemote", !.isPrivate = ~public]
       ELSE m' = [m EXCEPT !.pc = "updateRemote"]
    /\ UNCHANGED <<args, repo, github>>
    /\ UNCHANGED accountVars
    /\ UNCHANGED procVars
    /\ StoreUntouched

\* line 245, updateRemoteUrl up to the decision to create the repository
MigrateUpdateRemoteUrl ==
    /\ At("updateRemote")
    /\ \E sshConnected \in BOOLEAN,
          probe \in RepoProbes(m.targetAccount, m.repoInfo.name) :
        LET r == checkRepoExistsResult(probe)
            repoExists == r.value
            owner == m.targetAccount["githubUsername"]
            info == [m.repoInfo EXCEPT
                       !.owner = owner,
                       !.fullName = FullName(owner, m.repoInfo.name),
                       !.sshUrl = TargetSshUrl(m.targetAccount, m.repoInfo.name,
                                               sshConnected),
                       !.httpsUrl = HttpsUrl(owner, m.repoInfo.name)]
        IN m' = IF r.raised
                    THEN [Exit(1) EXCEPT !.failed = "checkRepoExists",
                                         !.repoInfo = info,
                                         !.sshConnected = sshConnected,
                                         !.probe = probe, !.probed = r]
                ELSE [m EXCEPT !.pc = IF repoExists THEN "setOrigin"
                                      ELSE "createRepo",
                               !.repoInfo = info,
                               !.sshConnected = sshConnected,
                               !.probe = probe, !.probed = r]
    /\ UNCHANGED <<args, repo, github>>
    /\ UNCHANGED accountVars
    /\ UNCHANGED procVars
    /\ StoreUntouched

\* createGitHubRepo going on after a "no"
MigrateCreateRepo_GoesOn ==
    /\ At("createRepo")
    /\ \E confirmed \in BOOLEAN :
        m' = [m EXCEPT !.pc = "setOrigin",
                       !.declined = IF confirmed THEN @ ELSE "createRepo"]
    /\ UNCHANGED <<args, repo, github>>
    /\ UNCHANGED accountVars
    /\ UNCHANGED procVars
    /\ StoreUntouched

\* createGitHubRepo: gh repo create; when that fails the user is told to
\* create the repository by hand and asked once whether that is done; "no"
\* ends the command with status 0.  The command does not verify the answer.
MigrateCreateRepo ==
    /\ At("createRepo")
    /\ \E ghOk \in BOOLEAN :
        IF ghOk
            THEN /\ m' = [m EXCEPT !.pc = "setOrigin", !.created = "gh"]
                 /\ github' = github \cup {m.repoInfo.fullName}
        ELSE \E confirmed \in BOOLEAN, reallyCreated \in BOOLEAN :
                /\ m' = IF confirmed
                            THEN [m EXCEPT !.pc = "setOrigin", !.created = "manual"]
                        ELSE [Exit(0) EXCEPT !.declined = "createRepo"]
                /\ github' = IF reallyCreated
                                 THEN github \cup {m.repoInfo.fullName}
                             ELSE github
    /\ UNCHANGED <<args, repo>>
    /\ UNCHANGED accountVars
    /\ UNCHANGED procVars
    /\ StoreUntouched

\* updateRemoteUrl: git remote set-url / add origin
MigrateSetOrigin ==
    /\ At("setOrigin")
    /\ \E ok \in BOOLEAN :
        /\ repo' = IF ok THEN [repo EXCEPT !.origin = m.repoInfo.sshUrl] ELSE repo
        /\ m' = IF ok THEN [m EXCEPT !.pc = "upstream", !.attached = TRUE]
                ELSE [Exit(1) EXCEPT !.failed = "setOrigin"]
    /\ UNCHANGED <<args, github>>
    /\ UNCHANGED accountVars
    /\ UNCHANGED procVars
    /\ StoreUntouched

\* lines 247-258: upstream tracking, then the initial commit of a freshly
\* initialized repository
MigrateAskUpstream ==
    /\ At("upstream")
    /\ \E shouldSetupUpstream \in BOOLEAN, ok \in BOOLEAN :
        m' = IF shouldSetupUpstream /\ ~ok
                 THEN [Exit(1) EXCEPT !.failed = "upstream"]
             ELSE [m EXCEPT !.pc = "askPush"]
    /\ UNCHANGED <<args, repo, github>>
    /\ UNCHANGED accountVars
    /\ UNCHANGED procVars
    /\ StoreUntouched

\* lines 260-262
MigrateAskPush ==
    /\ At("askPush")
    /\ \E shouldPush \in BOOLEAN :
        m' = [m EXCEPT !.pc = IF shouldPush THEN "push" ELSE "deleteGate",
                       !.shouldPush = shouldPush]
    /\ UNCHANGED <<args, repo, github>>
    /\ UNCHANGED accountVars
    /\ UNCHANGED procVars
    /\ StoreUntouched

\* a push whose failure puts the working directory back as it was found
MigratePush_RollsBack ==
    /\ At("push")
    /\ \E ok \in IF m.repoInfo.fullName \in github THEN BOOLEAN ELSE {FALSE} :
        /\ m' = IF ok THEN [m EXCEPT !.pc = "deleteGate", !.pushed = TRUE]
                ELSE [Exit(1) EXCEPT !.failed = "push"]
        /\ repo' = IF ok THEN repo ELSE m.start
    /\ UNCHANGED <<args, github>>
    /\ UNCHANGED accountVars
    /\ UNCHANGED procVars
    /\ StoreUntouched

\* a push whose failure is reported and the command goes on
MigratePush_FailureGoesOn ==
    /\ At("push")
    /\ \E ok \in IF m.repoInfo.fullName \in github THEN BOOLEAN ELSE {FALSE} :
        m' = IF ok THEN [m EXCEPT !.pc = "deleteGate", !.pushed = TRUE]
             ELSE [m EXCEPT !.pc = "deleteGate", !.failed = "push"]
    /\ UNCHANGED <<args, repo, github>>
    /\ UNCHANGED accountVars
    /\ UNCHANGED procVars
    /\ StoreUntouched

\* pushToRemote(true): git push --set-upstream origin HEAD --force; it can
\* succeed only when the target repository exists
MigratePush ==
    /\ At("push")
    /\ \E ok \in IF m.repoInfo.fullName \in github THEN BOOLEAN ELSE {FALSE} :
        m' = IF ok THEN [m EXCEPT !.pc = "deleteGate", !.pushed = TRUE]
             ELSE [Exit(1) EXCEPT !.failed = "push"]
    /\ UNCHANGED <<args, repo, github>>
    /\ UNCHANGED accountVars
    /\ UNCHANGED procVars
    /\ StoreUntouched

\* the deletion step entered whether or not --delete-source was given
MigrateDeleteGate_Always ==
    /\ At("deleteGate")
    /\ m' = [m EXCEPT !.pc = "dangerConfirm"]
    /\ UNCHANGED <<args, repo, github>>
    /\ UNCHANGED accountVars
    /\ UNCHANGED procVars
    /\ StoreUntouched

\* lines 267-270
MigrateDeleteGate ==
    /\ At("deleteGate")
    /\ m' = IF args.deleteSource /\ ~m.shouldInit
                THEN [m EXCEPT !.pc = "dangerConfirm"] ELSE Exit(0)
    /\ UNCHANGED <<args, repo, github>>
    /\ UNCHANGED accountVars
    /\ UNCHANGED procVars
    /\ StoreUntouched

\* confirmDangerousAction, first question; "no" returns false and the
\* command ends ("deletion cancelled")
MigrateDangerConfirm ==
    /\ At("dangerConfirm")
    /\ \E firstConfirm \in BOOLEAN :
        m' = IF firstConfirm
                 THEN [m EXCEPT !.pc = "dangerText", !.firstConfirm = "yes"]
             ELSE [Exit(0) EXCEPT !.firstConfirm = "no",
                                  !.declined = "dangerConfirm"]
    /\ UNCHANGED <<args, repo, github>>
    /\ UNCHANGED accountVars
    /\ UNCHANGED procVars
    /\ StoreUntouched

\* confirmDangerousAction, the text prompt: a text the validation refuses
\* is asked for again
MigrateDangerText ==
    /\ At("dangerText")
    /\ \E input \in {DeleteConfirmationText(m.repoInfo.name), "DELETE-", "delete-demo"} :
        LET expected == DeleteConfirmationText(m.repoInfo.name)
        IN IF ~DangerousTextValid(input, expected)
               THEN /\ m.retypes < MaxRetype
                    /\ m' = [m EXCEPT !.retypes = @ + 1, !.text = input]
           ELSE m' = IF DangerousTextConfirms(input, expected)
                         THEN [m EXCEPT !.pc = "deleteRepo", !.text = input]
                     ELSE [Exit(0) EXCEPT !.text = input]
    /\ UNCHANGED <<args, repo, github>>
    /\ UNCHANGED accountVars
    /\ UNCHANGED procVars
    /\ StoreUntouched

\* deleteGitHubRepo: the user is told to delete the repository by hand and
\* asked whether that is done; "no" ends the command with status 0, an
\* error while asking with status 1
MigrateDeleteRepo ==
    /\ At("deleteRepo")
    /\ \E asked \in BOOLEAN, confirmed \in BOOLEAN :
        LET sourceFullName ==
                FullName(m.sourceAccount["githubUsername"], m.repoInfo.name)
        IN /\ m' = IF ~asked
                       THEN [Exit(1) EXCEPT !.deleteCalled = TRUE,
                                            !.failed = "delete"]
                   ELSE IF confirmed
                       THEN [Exit(0) EXCEPT !.deleted = TRUE, !.deleteCalled = TRUE]
                   ELSE [Exit(0) EXCEPT !.deleteCalled = TRUE,
                                        !.declined = "deleteRepo"]
           /\ github' = IF asked /\ confirmed
                             THEN github \ {sourceFullName} ELSE github
    /\ UNCHANGED <<args, repo>>
    /\ UNCHANGED accountVars
    /\ UNCHANGED procVars
    /\ StoreUntouched

NextMigrate ==
    \/ MigrateDetectRepo
    \/ MigrateAskInit
    \/ MigrateRepoInfo
    \/ MigrateSource
    \/ MigrateTarget
    \/ MigrateTargetToken
    \/ MigrateSourceToken
    \/ MigrateCheckTarget
    \/ MigrateConfirmOverwrite
    \/ MigrateSetGitConfig
    \/ MigrateAskVisibility
    \/ MigrateUpdateRemoteUrl
    \/ MigrateCreateRepo
    \/ MigrateSetOrigin
    \/ MigrateAskUpstream
    \/ MigrateAskPush
    \/ MigratePush
    \/ MigrateDeleteGate
    \/ MigrateDangerConfirm
    \/ MigrateDangerText
    \/ MigrateDeleteRepo

\* the store a migrate run starts from: two accounts, one without a token
MigrateStores ==
    { [accounts |-> [n \in {"work", "personal"} |->
                        IF n = "work" THEN WorkAccount ELSE PersonalAccount],
       defaultAccount |-> d] : d \in {"work", "personal"} }

\* account names given on the command line: omitted, configured, unknown
MigrateArgNames == {NoName, "work", "personal", "nobody"}

InitMigrate ==
    /\ file \in MigrateStores
    /\ pre = file
    /\ call = NoCall
    /\ args \in [source : MigrateArgNames, target : MigrateArgNames,
                 deleteSource : BOOLEAN]
    /\ repo \in
        { [isRepo |-> FALSE, origin |-> NoUrl, userName |-> "", userEmail |-> "", dir |-> "demo"] }
        \cup
        { [isRepo |-> TRUE, origin |-> o, userName |-> "", userEmail |-> "", dir |-> "demo"] :
            o \in {NoUrl, SshUrl("github.com-personal", "alice", "demo"),
                   HttpsUrl("alice", "demo"), OtherUrl} }
        \cup
        { [isRepo |-> TRUE, origin |-> NoUrl, userName |-> "", userEmail |-> "",
           dir |-> "alice.github.io"] }
    /\ github \in SUBSET {"alice/demo", "alice-work/demo"}
    /\ m = [Idle EXCEPT !.pc = "start", !.start = repo]
    /\ ssh = NoSshDir
    /\ cmd = NoCmd
    /\ procs = NoProcs

SpecMigrate == InitMigrate /\ [][NextMigrate]_vars

----------------------------------------------------------------------------
(* The account store on its own *)

\* initConfig() has written the template
Init ==
    /\ file = DEFAULT_CONFIG
    /\ pre = DEFAULT_CONFIG
    /\ call = NoCall
    /\ args = [source |-> NoName, target |-> NoName, deleteSource |-> FALSE]
    /\ repo = [isRepo |-> FALSE, origin |-> NoUrl, userName |-> "", userEmail |-> "", dir |-> "demo"]
    /\ github = {}
    /\ m = Idle
    /\ ssh = NoSshDir
    /\ cmd = NoCmd
    /\ procs = NoProcs

Create ==
    /\ \E n \in Names, d \in AccountData : createAccount(n, d)
    /\ UNCHANGED migrateVars
    /\ UNCHANGED accountVars
    /\ UNCHANGED procVars

Delete ==
    /\ \E n \in Names : deleteAccount(n)
    /\ UNCHANGED migrateVars
    /\ UNCHANGED accountVars
    /\ UNCHANGED procVars

SetDefault ==
    /\ \E n \in Names : setDefaultAccount(n)
    /\ UNCHANGED migrateVars
    /\ UNCHANGED accountVars
    /\ UNCHANGED procVars

Update ==
    /\ \E n \in Names, d \in PartialData : updateAccount(n, d)
    /\ UNCHANGED migrateVars
    /\ UNCHANGED accountVars
    /\ UNCHANGED procVars

Get ==
    /\ \E n \in Names \cup {NoName} : getAccount(n)
    /\ UNCHANGED migrateVars
    /\ UNCHANGED accountVars
    /\ UNCHANGED procVars

Next ==
    \/ Create
    \/ Delete
    \/ SetDefault
    \/ Update
    \/ Get

Spec == Init /\ [][Next]_vars

\* The config file is meant to be edited by hand (initConfig's message asks
\* for it): a store whose placeholder entry the user removed, and one the
\* user filled with two accounts.
EditedStores ==
    { DEFAULT_CONFIG,
      [accounts |-> EmptyObj, defaultAccount |-> "example"],
      [accounts |-> [n \in {"work", "personal"} |->
                        IF n = "work" THEN WorkAccount ELSE PersonalAccount],
       defaultAccount |-> "work"] }

InitEdited ==
    /\ file \in EditedStores
    /\ pre = file
    /\ call = NoCall
    /\ args = [source |-> NoName, target |-> NoName, deleteSource |-> FALSE]
    /\ repo = [isRepo |-> FALSE, origin |-> NoUrl, userName |-> "", userEmail |-> "", dir |-> "demo"]
    /\ github = {}
    /\ m = Idle
    /\ ssh = NoSshDir
    /\ cmd = NoCmd
    /\ procs = NoProcs

SpecEdited == InitEdited /\ [][Next]_vars

\* the account command, on the template or a store with two accounts
InitAccount ==
    /\ file \in { DEFAULT_CONFIG,
                  [accounts |-> [n \in {"work", "personal"} |->
                                    IF n = "work" THEN WorkAccount
                                    ELSE PersonalAccount],
                   defaultAccount |-> "work"] }
    /\ pre = file
    /\ call = NoCall
    /\ args = [source |-> NoName, target |-> NoName, deleteSource |-> FALSE]
    /\ repo = [isRepo |-> FALSE, origin |-> NoUrl, userName |-> "", userEmail |-> "", dir |-> "demo"]
    /\ github = {}
    /\ m = Idle
    /\ ssh \in SshDirs
    /\ cmd = NoCmd
    /\ procs = NoProcs

SpecAccount == InitAccount /\ [][NextAccount]_vars

\* stores the two invocations start from: the template, and the template
\* with a second account
ConcurrentStores ==
    { DEFAULT_CONFIG,
      [accounts |-> [n \in {"example", "work"} |->
                        IF n = "example" THEN ExampleAccount ELSE WorkAccount],
       defaultAccount |-> "example"] }

InitConcurrent ==
    /\ file \in ConcurrentStores
    /\ pre = file
    /\ call = NoCall
    /\ args = [source |-> NoName, target |-> NoName, deleteSource |-> FALSE]
    /\ repo = [isRepo |-> FALSE, origin |-> NoUrl, userName |-> "", userEmail |-> "", dir |-> "demo"]
    /\ github = {}
    /\ m = Idle
    /\ ssh = NoSshDir
    /\ cmd = NoCmd
    /\ procs = NoProcs

Read == \E p \in Procs : ProcRead(p)

Write == \E p \in Procs : ProcWrite(p)

NextConcurrent == Read \/ Write

SpecConcurrent == InitConcurrent /\ [][NextConcurrent]_vars


----------------------------------------------------------------------------
(* Claims about the account store.  `pre` is the file before the last      *)
(* call, `file` the file after it, `call` the call and its outcome.        *)

Rejected == call.outcome \notin {"ok", "none"}

StoreUnchanged == file = pre

\* every account of `pre` other than `name` is in `file` with the same data
OthersKept(name) ==
    \A k \in (DOMAIN pre.accounts) \ {name} :
        k \in DOMAIN file.accounts /\ file.accounts[k] = pre.accounts[k]

\* C1: in every reachable store, a non-empty accounts map contains the key
\* named by defaultAccount.
C1_DefaultIsAKey ==
    (DOMAIN file.accounts # {}) => file.defaultAccount \in DOMAIN file.accounts

\* C2: deleting the default account is rejected (IsDefaultAccount) and the
\* store after the call equals the store before it.
C2_DeleteDefaultRejected ==
    (call.op = "delete" /\ call.name = pre.defaultAccount)
        => (call.outcome = "IsDefaultAccount" /\ StoreUnchanged)

C2_Witness ==
    /\ call.op = "delete"
    /\ call.name = pre.defaultAccount
    /\ Cardinality(DOMAIN pre.accounts) > 1

\* C3 as claimed: deleting the only account fails with SoleAccount and
\* leaves the store unchanged.
C3_SoleAccountRejection ==
    (call.op = "delete" /\ DOMAIN pre.accounts = {call.name})
        => (call.outcome = "SoleAccount" /\ StoreUnchanged)

\* C3 amended: deleting the only account fails and leaves the store
\* unchanged; the rejection is IsDefaultAccount when that account is the
\* default (the check made first) and SoleAccount only when it is not.
C3_SoleAccountDeleteFails ==
    (call.op = "delete" /\ DOMAIN pre.accounts = {call.name})
        => /\ StoreUnchanged
           /\ call.outcome =
                IF call.name = pre.defaultAccount
                    THEN "IsDefaultAccount" ELSE "SoleAccount"

C3_Witness ==
    /\ call.op = "delete"
    /\ DOMAIN pre.accounts = {call.name}
    /\ call.name = pre.defaultAccount
    /\ call.outcome = "IsDefaultAccount"

\* C4: deleting an existing account that is neither the default nor the
\* only one removes exactly that key; the other accounts keep their data
\* and defaultAccount is unchanged.
C4_DeleteRemovesExactlyOne ==
    (/\ call.op = "delete"
     /\ call.name \in DOMAIN pre.accounts
     /\ call.name # pre.defaultAccount
     /\ Cardinality(DOMAIN pre.accounts) > 1)
        => /\ call.outcome = "ok"
           /\ DOMAIN file.accounts = (DOMAIN pre.accounts) \ {call.name}
           /\ OthersKept(call.name)
           /\ file.defaultAccount = pre.defaultAccount

C4_Witness ==
    /\ call.op = "delete"
    /\ call.name \in DOMAIN pre.accounts
    /\ call.name # pre.defaultAccount
    /\ Cardinality(DOMAIN pre.accounts) > 2
    /\ call.outcome = "ok"

\* C5: create on a store with no accounts makes the created name the
\* default; create on a store with at least one account leaves
\* defaultAccount unchanged.
C5_FirstAccountBecomesDefault ==
    (call.op = "create")
        => IF DOMAIN pre.accounts = {}
               THEN file.defaultAccount = call.name
               ELSE file.defaultAccount = pre.defaultAccount

\* C6: after a successful create(name, data), get(name) returns exactly
\* data, and the accounts stored before are unchanged.
C6_CreateThenGet ==
    (call.op = "create" /\ call.outcome = "ok")
        => LET got == getAccountResult(file, call.name)
           IN /\ got.outcome = "ok"
              /\ got.name = call.name
              /\ got.account = call.data
              /\ OthersKept(call.name)
              /\ DOMAIN file.accounts = (DOMAIN pre.accounts) \cup {call.name}

C6_Witness ==
    /\ call.op = "create"
    /\ call.outcome = "ok"
    /\ call.name \notin DOMAIN pre.accounts
    /\ DOMAIN pre.accounts # {}
    /\ "githubToken" \notin DOMAIN call.data

\* C7: update of an existing account changes only the fields given in the
\* partial data; its other fields, the other accounts and defaultAccount
\* are unchanged.
C7_UpdateMergesOnlyGivenFields ==
    (call.op = "update" /\ call.name \in DOMAIN pre.accounts)
        => /\ call.outcome = "ok"
           /\ DOMAIN file.accounts = DOMAIN pre.accounts
           /\ OthersKept(call.name)
           /\ file.defaultAccount = pre.defaultAccount
           /\ LET old == pre.accounts[call.name]
                  new == file.accounts[call.name]
              IN /\ DOMAIN new = (DOMAIN old) \cup (DOMAIN call.data)
                 /\ \A f \in DOMAIN call.data : new[f] = call.data[f]
                 /\ \A f \in (DOMAIN old) \ (DOMAIN call.data) : new[f] = old[f]

C7_Witness ==
    /\ call.op = "update"
    /\ call.name \in DOMAIN pre.accounts
    /\ Cardinality(DOMAIN pre.accounts) > 1
    /\ "githubToken" \notin DOMAIN pre.accounts[call.name]
    /\ file # pre

\* C8: create with a name that is already a key fails with AlreadyExists
\* and leaves the store unchanged.
C8_CreateExistingRejected ==
    (call.op = "create" /\ call.name \in DOMAIN pre.accounts)
        => (call.outcome = "AlreadyExists" /\ StoreUnchanged)

C8_Witness ==
    /\ call.op = "create"
    /\ call.name \in DOMAIN pre.accounts
    /\ pre.accounts[call.name] # call.data

\* C9: get, update and setDefault with a name that is not a key fail with
\* AccountNotFound and leave the store unchanged; setDefault with a key
\* sets defaultAccount to it and leaves accounts unchanged; get without a
\* name returns the account named by defaultAccount.
C9_UnknownNameNotFound ==
    /\ (/\ call.op \in {"get", "update", "setDefault"}
        /\ call.name # NoName
        /\ call.name \notin DOMAIN pre.accounts)
            => (call.outcome = "AccountNotFound" /\ StoreUnchanged)
    /\ (call.op = "setDefault" /\ call.name \in DOMAIN pre.accounts)
            => /\ call.outcome = "ok"
               /\ file.defaultAccount = call.name
               /\ file.accounts = pre.accounts
    /\ (/\ call.op = "get"
        /\ call.name = NoName
        /\ pre.defaultAccount \in DOMAIN pre.accounts)
            => /\ call.outcome = "ok"
               /\ call.resName = pre.defaultAccount
               /\ call.result = pre.accounts[pre.defaultAccount]
               /\ StoreUnchanged

----------------------------------------------------------------------------
(* Claims about migrate.  m.deleted: deleteGitHubRepo has run to its end   *)
(* and the command has reported the source repository deleted.             *)

MigrateEnded == m.pc = "exited"

\* the conditions under which migrate may delete the source repository
DeleteAllowed ==
    /\ args.deleteSource
    /\ ~m.shouldInit
    /\ m.firstConfirm = "yes"
    /\ m.text = "DELETE-" \o m.repoInfo.name

\* C10 as claimed: the source repository is deleted only if deleteSource
\* was requested, the repository pre-existed, the first dangerous
\* confirmation was answered yes and the typed text is DELETE-<repoName>;
\* every other run does not delete it and exits with status zero.
C10_DeleteGatedElseExitZero ==
    /\ m.deleted => DeleteAllowed
    /\ (MigrateEnded /\ ~m.deleted) => m.exit = 0

\* C10 amended: the source repository is deleted only under those four
\* conditions, and deleteGitHubRepo is not even called without them; a run
\* that reaches the dangerous confirmation and is refused at its first
\* question ends with status zero and the source repository undeleted.
\* (A run that fails earlier ends with status 1, also without deleting.)
C10_DeleteGated ==
    /\ m.deleted => DeleteAllowed
    /\ m.deleteCalled => DeleteAllowed
    /\ (MigrateEnded /\ ~DeleteAllowed) => ~m.deleted
    /\ (MigrateEnded /\ m.firstConfirm = "no") => (m.exit = 0 /\ ~m.deleted)
    /\ (MigrateEnded /\ m.pushed /\ ~args.deleteSource) => (m.exit = 0 /\ ~m.deleted)

\* a run that deleted the source repository after a refused retyping
C10_Witness ==
    /\ MigrateEnded
    /\ m.deleted
    /\ m.retypes > 0
    /\ m.pushed

\* the working directory as the run found it: m.start

IdentityUnchanged ==
    repo.userName = m.start.userName /\ repo.userEmail = m.start.userEmail

OriginUnchanged == repo.origin = m.start.origin

SameAccountResolved ==
    m.sourceAccountName # NoName /\ m.sourceAccountName = m.targetAccountName

\* C11: whenever the resolved source and target account names are equal,
\* the run changes neither the git identity nor origin, pushes nothing and
\* deletes nothing.
C11_SameAccountNoEffect ==
    SameAccountResolved
        => (IdentityUnchanged /\ OriginUnchanged /\ ~m.pushed /\ ~m.deleted)

\* C12: a run started in a directory that is not a git repository asks
\* whether to initialize one; from then on it has either initialized and
\* gone on, or was declined and ended with status zero.
C12_OfferInit ==
    (~m.start.isRepo /\ ~At("start"))
        => \/ At("askInit")
           \/ m.shouldInit
           \/ (MigrateEnded /\ m.exit = 0)

\* the run came to its end with no step failing and no confirmation declined
EndedWell == MigrateEnded /\ m.exit = 0 /\ m.declined = "none"

C17_DeclineHalts ==
    [][ /\ (m.declined = "none" /\ m'.declined # "none")
            => /\ m'.pc = "exited" /\ m'.exit = 0
               /\ repo' = repo /\ file' = file /\ ssh' = ssh
               /\ m'.pushed = m.pushed /\ m'.deleted = m.deleted
        /\ m.declined = "none" ]_vars

C17_Witness ==
    /\ m.declined = "createRepo"
    /\ MigrateEnded
    /\ repo.userName # m.start.userName

\* C20: a failure of the upstream setup, the push or the delete, all of
\* which come after origin was attached, ends the run with status 1 and
\* leaves the git identity set to the target account and origin set to the
\* target URL.
C20_NoRollback ==
    m.failed \in {"upstream", "push", "delete"}
        => /\ MigrateEnded /\ m.exit = 1
           /\ m.attached
           /\ repo.userName = m.targetAccount["gitUsername"]
           /\ repo.userEmail = m.targetAccount["gitEmail"]
           /\ repo.origin = TargetSshUrl(m.targetAccount, m.repoInfo.name,
                                         m.sshConnected)

C20_Witness ==
    /\ m.failed = "push"
    /\ m.start.origin = SshUrl("github.com-personal", "alice", "demo")
    /\ repo.origin # m.start.origin
    /\ repo.userName # m.start.userName

----------------------------------------------------------------------------
(* Claims about the account command and ~/.ssh.  cmd.ssh0 is ~/.ssh as    *)
(* the command found it.                                                   *)

ConfigErrors == {"AlreadyExists", "IsDefaultAccount", "SoleAccount", "AccountNotFound"}

\* C15: a command whose request the store refuses (duplicate name, default
\* or sole account, unknown name) ends with a non-zero exit status and
\* reports no success.
C15_ConfigErrorFatal ==
    (cmd.op # "none" /\ cmd.outcome \in ConfigErrors)
        => (cmd.exit # 0 /\ ~cmd.success)

\* the Host name a line of a config belongs to: a Host line to itself,
\* comment lines directly above a Host line to that line, any other line
\* to the last Host line above it; "" for the text before the first block
Owner(text, i) ==
    LET below == {j \in i..Len(text) :
                    /\ text[j].kind = "host"
                    /\ \A k \in i..(j - 1) : text[k].kind = "comment"}
        above == {j \in 1..i : text[j].kind = "host"}
    IN IF below # {} THEN text[CHOOSE j \in below : TRUE].text
       ELSE IF above # {}
           THEN text[CHOOSE j \in above : \A k \in above : k <= j].text
       ELSE ""

\* the lines of a text that are not empty and do not belong to alias
RECURSIVE LinesNotOf(_, _, _)
LinesNotOf(text, alias, i) ==
    IF i > Len(text) THEN <<>>
    ELSE (IF text[i] # EmptyLine /\ Owner(text, i) # alias
              THEN <<text[i]>> ELSE <<>>)
            \o LinesNotOf(text, alias, i + 1)

IsNotEmptyLine(line) == line # EmptyLine

NonEmptyLines(text) == SelectSeq(text, IsNotEmptyLine)

\* C16: when the account command has removed the Host block of an alias
\* and written the file, the file holds, in their order, exactly the lines
\* it held before that do not belong to that block (empty lines aside, the
\* join separator): the text before the first Host line and every other
\* block with its comment lines.
C16_RemoveKeepsOtherBlocks ==
    (cmd.op = "delete" /\ cmd.sshWrote)
        => NonEmptyLines(ssh.text) = LinesNotOf(cmd.ssh0.text, cmd.alias, 1)

\* C18: with no SSH config file, the update of the file that the account
\* command asks for (addHostToSshConfig, and updateSshConfig in it) returns
\* false; there is no file afterwards and no backup was made.
C18_NoFileNoWrite ==
    (cmd.sshCalled /\ ~cmd.ssh0.exists)
        => /\ ~cmd.sshOk /\ ~cmd.sshWrote
           /\ ~ssh.exists
           /\ ssh.text = cmd.ssh0.text
           /\ ssh.backups = cmd.ssh0.backups

C18_Witness ==
    /\ cmd.op = "create"
    /\ cmd.sshCalled
    /\ ~cmd.ssh0.exists
    /\ cmd.success

\* C19: a command that has overwritten the SSH config has made, before the
\* write, one new backup that holds the file as it was before the write;
\* a command that has not written has left the text alone.
C19_BackupBeforeWrite ==
    /\ cmd.sshWrote
        => /\ cmd.ssh0.exists
           /\ ssh.backups = Append(cmd.ssh0.backups, cmd.ssh0.text)
    /\ (cmd.op # "none" /\ ~cmd.sshWrote)
        => (ssh.text = cmd.ssh0.text /\ ssh.exists = cmd.ssh0.exists)

C19_Witness ==
    /\ cmd.sshWrote
    /\ Len(ssh.backups) = 2
    /\ ssh.backups[1] # ssh.backups[2]
    /\ ssh.text # cmd.ssh0.text

----------------------------------------------------------------------------
(* Remote URLs *)

\* URLs given to parseRepoUrl: both forms for each owner, name and host
UrlOwners == {"alice", "alice-work"}

UrlRepoNames == {"demo", "demo.js", "alice.github.io"}

UrlHosts == {"github.com", "github.com-work", "github.com-personal"}

\* C21: parseRepoUrl gives the same RepoInfo for the SSH form (any host
\* alias) and the HTTPS form of a repository, with fullName = owner/name and
\* both URLs against github.com, and null for a string of neither form; and
\* parsing the origin URL that updateRemoteUrl wrote for an account and a
\* repository name gives back the account's githubUsername and that name.
C21_ParseRoundTrip ==
    /\ \A owner \in UrlOwners, name \in UrlRepoNames, host \in UrlHosts :
          LET info == parseRepoUrl(SshUrl(host, owner, name))
          IN /\ ~info.isNull
             /\ info = parseRepoUrl(HttpsUrl(owner, name))
             /\ info.owner = owner
             /\ info.fullName = FullName(info.owner, info.name)
             /\ info.sshUrl = SshUrl("github.com", info.owner, info.name)
             /\ info.httpsUrl = HttpsUrl(info.owner, info.name)
    /\ parseRepoUrl(OtherUrl).isNull
    /\ m.attached
         => /\ parseRepoUrl(repo.origin).owner = m.targetAccount["githubUsername"]
            /\ parseRepoUrl(repo.origin).name = m.repoInfo.name

\* C22: once updateRemoteUrl has succeeded, origin is
\* git@<sshHostAlias>:<githubUsername>/<name>.git of the account it was
\* called with, whether or not origin existed before, and repoInfo carries
\* that account's owner, fullName, sshUrl and httpsUrl.
C22_OriginAfterUpdate ==
    m.attached
        => LET account == m.targetAccount
               owner == account["githubUsername"]
               url == SshUrl(account["sshHostAlias"], owner, m.repoInfo.name)
           IN /\ repo.origin = url
              /\ m.repoInfo.owner = owner
              /\ m.repoInfo.fullName = FullName(owner, m.repoInfo.name)
              /\ m.repoInfo.sshUrl = url
              /\ m.repoInfo.httpsUrl = HttpsUrl(owner, m.repoInfo.name)

\* C23: checkRepoExists never raises; it returns true exactly when its probe
\* reports the repository present, and false for every other outcome, a
\* repository that is not there and a probe that failed alike.
C23_ExistsNeverRaises ==
    m.probe # "none"
        => /\ ~m.probed.raised
           /\ m.failed # "checkRepoExists"
           /\ m.probed.value <=> m.probe = "present"

C23_Witness ==
    /\ m.probe = "failure"
    /\ ~m.probed.value
    /\ m.pc = "createRepo"

\* C24: the manual flow of createGitHubRepo, entered when the automatic
\* creation failed, lets the command go on only once the repository is
\* there: whenever the flow has ended with success the repository exists.
C24_ManualCreateVerified ==
    m.created = "manual" => m.repoInfo.fullName \in github

----------------------------------------------------------------------------
(* Claims about two invocations at the same time *)

\* the file shows what the operation of invocation p did
Reflected(p) ==
    LET o == procs[p]
    IN /\ o.name \in Keys(file.accounts)
       /\ IF o.op = "create"
              THEN file.accounts[o.name] = JsonObject(o.data)
          ELSE \A f \in DOMAIN o.data :
                  /\ f \in DOMAIN file.accounts[o.name]
                  /\ file.accounts[o.name][f] = o.data[f]

\* both invocations have ended with success, p wrote first, and q had read
\* the file before p wrote; both created an account or both updated one,
\* under different names
Interleaved(p, q) ==
    /\ procs[p].pc = "done" /\ procs[q].pc = "done"
    /\ procs[p].outcome = "ok" /\ procs[q].outcome = "ok"
    /\ procs[p].seq = 1 /\ procs[q].seq = 2
    /\ ~procs[q].sawOther
    /\ procs[p].op = procs[q].op
    /\ procs[p].op \in {"create", "update"}
    /\ procs[p].name # procs[q].name

\* C25: nothing keeps the read and the write of a store operation together.
\* When two invocations that create two accounts, or update two accounts,
\* both succeed and the one that wrote last had read the file before the
\* other wrote, the file shows the change of the last writer only.
C25_LostUpdate ==
    \A p \in Procs :
        LET q == Other(p)
        IN Interleaved(p, q) => Reflected(q) /\ ~Reflected(p)

C25_Witness ==
    \E p \in Procs :
        /\ Interleaved(p, Other(p))
        /\ procs[p].op = "create"
        /\ procs[p].name \notin Keys(file.accounts)
        /\ procs[Other(p)].name \in Keys(file.accounts)

\* C26: whatever the interleaving of the two invocations, the file always
\* has at least one account and a defaultAccount that is one of its
\* accounts.
C26_FileValidAfterWrites ==
    /\ Keys(file.accounts) # {}
    /\ file.defaultAccount \in Keys(file.accounts)

----------------------------------------------------------------------------
(* Further claims about the account command *)

\* C27: a run of account --delete changes ~/.ssh (the Host block, the key
\* files) only when the store has removed the account; when the store
\* rejects the deletion (default account, sole account) the SSH config and
\* the key files are as before and no success is reported.
C27_CleanupOnlyWhenDeleted ==
    cmd.op = "delete"
        => /\ ssh # cmd.ssh0
                => /\ cmd.outcome = "ok"
                   /\ cmd.name \notin Keys(file.accounts)
           /\ cmd.outcome \in {"IsDefaultAccount", "SoleAccount"}
                => ssh = cmd.ssh0 /\ ~cmd.success

----------------------------------------------------------------------------
(* Further claims about migrate *)

----------------------------------------------------------------------------
(* Further claims about the account store *)

\* C29: from the template on, the store always holds at least one account;
\* so createAccount never adds the first account (its first-account branch
\* is not taken) and deleteAccount never comes to reject with its
\* sole-account check.
C29_NeverEmpty ==
    /\ Keys(file.accounts) # {}
    /\ (call.op = "create" /\ call.outcome = "ok")
          => Cardinality(Keys(file.accounts)) > 1
    /\ call.outcome # "SoleAccount"

----------------------------------------------------------------------------
(* Further claims about the SSH config *)

\* how many Host lines of the text name the alias
HostLineCount(text, alias) ==
    Cardinality({i \in 1..Len(text) : text[i] = HostLine(alias)})

\* the comment line generateSshConfigBlock writes above the Host line
ToolComment(account) == generateSshConfigBlock(account)[2]

HasLine(text, line) == \E i \in 1..Len(text) : text[i] = line

====
